---- MODULE Spec2Model ----
(***************************************************************************)
(* Model of the chat service (app/services/claude_service.py), of its HTTP *)
(* adapter (app/api/routes/ai.py) and of the MCP client manager            *)
(* (app/services/mcp_manager.py).                                          *)
(*                                                                         *)
(* Every action is one run of a coroutine between two suspension points    *)
(* (await / yield): asyncio runs such a segment without interleaving.      *)
(* The durable store is modelled statement by statement: a flush is one    *)
(* atomic step on the shared tables, and each request owns an ORM session  *)
(* whose identity map keeps the Conversation attributes it has loaded.     *)
(***************************************************************************)
EXTENDS Integers, Sequences, FiniteSets, TLC

\* ---------------------------------------------------------------- bounds
\* Settings.claude_max_turns is read from the environment (default 25);
\* the model runs the loop with a small ceiling.
claude_max_turns == 2

\* Calls into the manager and the tool executor accepted in one run.
MaxCalls == 3

\* The chat requests of a run, in the order in which they arrive; they may
\* overlap in any way.
SlotOrder == <<"r1", "r2">>
Reqs == {SlotOrder[i] : i \in 1..Len(SlotOrder)}
\* ClaudeService._key(user_id, project_id) values in use.
Keys == {"u1:p1"}
\* The keys conversations can belong to: the above and another user's
AllKeys == Keys \cup {"u2:p1"}

VARIABLES
    cache,      \* ClaudeService._cache: key -> {conversation_id, messages}
    lists,      \* the message list objects; cache entries and requests hold references
    convs,      \* table conversations, indexed by id
    rows,       \* table conversation_messages, per conversation, by created_at
    now,        \* logical clock behind Conversation.updated_at
    chat,       \* per slot: the locals of ClaudeService.chat and its position
    started,    \* number of chat requests accepted so far
    conns,      \* the MCPConnection objects ever constructed, by identity
    connections,\* MCPManager._connections: name -> MCPConnection, in insertion order
    enabled,    \* MCPManager._enabled_servers
    mgr,        \* per slot: the locals of an MCPManager call in flight and its position
    calls,      \* number of manager, tool and session calls accepted so far
    ret,        \* what the last tool call returned to its caller
    session,    \* what the session endpoints of routes/ai.py answered last
    svc         \* the call of load_conversation / start_new_conversation made last

chatVars == <<cache, lists, convs, rows, now, chat, started>>
mcpVars == <<conns, connections, enabled, mgr, calls, ret>>
routeVars == <<session, svc>>
vars == <<cache, lists, convs, rows, now, chat, started,
          conns, connections, enabled, mgr, calls, ret, session, svc>>

\* ------------------------------------------------------- message contents
NL == "\n"
NoId == <<0, 0, 0>>
\* f"stored_{uuid.uuid4().hex[:12]}": a fresh id, never the id the API gave
StoredId == <<0, 0, 1>>

\* A returned string: plain text, or json.dumps({"error": ...}); "raise" is
\* not a string but an exception leaving the callee.
Text(payload) == [kind |-> "text", msg |-> payload, arg |-> <<>>]
ErrorJson(m, a) == [kind |-> "error", msg |-> m, arg |-> a]
Raise(exc) == [kind |-> "raise", msg |-> exc, arg |-> <<>>]
NoResult == Text("")

TextBlock(t) ==
    [type |-> "text", text |-> t, id |-> NoId, name |-> <<>>, input |-> {}, content |-> NoResult]
ToolUseBlock(i, n, inp) ==
    [type |-> "tool_use", text |-> <<>>, id |-> i, name |-> n, input |-> inp, content |-> NoResult]
ToolResultBlock(i, res) ==
    [type |-> "tool_result", text |-> <<>>, id |-> i, name |-> <<>>, input |-> {}, content |-> res]

StrContent(t) == [isStr |-> TRUE, text |-> t, blocks |-> <<>>]
ListContent(bs) == [isStr |-> FALSE, text |-> <<>>, blocks |-> bs]
Message(role, content) == [role |-> role, content |-> content]

RECURSIVE JoinNL(_)
JoinNL(parts) ==
    IF parts = <<>> THEN <<>>
    ELSE IF Len(parts) = 1 THEN parts[1]
    ELSE parts[1] \o <<NL>> \o JoinNL(Tail(parts))

IsTextBlock(b) == b.type = "text"
IsToolUse(b) == b.type = "tool_use"

extract_text(content) ==
    IF content.isStr THEN content.text
    ELSE LET tb == SelectSeq(content.blocks, IsTextBlock)
         IN JoinNL([i \in 1..Len(tb) |-> tb[i].text])

NullJson == [null |-> TRUE, tools |-> <<>>]
extract_tool_uses(content) ==
    IF content.isStr THEN NullJson
    ELSE LET tu == SelectSeq(content.blocks, IsToolUse)
         IN IF tu = <<>> THEN NullJson
            ELSE [null |-> FALSE,
                  tools |-> [i \in 1..Len(tu) |-> [name |-> tu[i].name, input |-> tu[i].input]]]

Row(role, text, tool_uses) == [role |-> role, content |-> text, tool_uses_json |-> tool_uses]

IsChatRow(m) == m.role \in {"user", "assistant"}
load_conversation_messages(msgs) ==
    LET rs == SelectSeq(msgs, IsChatRow)
    IN [i \in 1..Len(rs) |->
          IF rs[i].role = "user"
          THEN Message("user", StrContent(rs[i].content))
          ELSE Message("assistant",
                 ListContent(<<TextBlock(rs[i].content)>> \o
                    (IF rs[i].tool_uses_json.null THEN <<>>
                     ELSE [j \in 1..Len(rs[i].tool_uses_json.tools) |->
                             ToolUseBlock(StoredId,
                                          rs[i].tool_uses_json.tools[j].name,
                                          rs[i].tool_uses_json.tools[j].input)])))]


\* ---------------------------------------------------------------- tools
\* Names are sequences of pieces; the piece "__" is the separator that
\* str.split("__") looks for, every other piece is text without "__".
SEP == "__"

RECURSIVE FirstSep(_, _)
FirstSep(s, i) ==
    IF i > Len(s) THEN 0 ELSE IF s[i] = SEP THEN i ELSE FirstSep(s, i + 1)

\* str.split("__", maxsplit)
RECURSIVE split(_, _)
split(s, maxsplit) ==
    LET i == FirstSep(s, 1)
    IN IF maxsplit = 0 \/ i = 0 THEN <<s>>
       ELSE <<SubSeq(s, 1, i - 1)>> \o split(SubSeq(s, i + 1, Len(s)), maxsplit - 1)

\* f"mcp__{self.name}__{tool.name}"
Namespaced(server, tool) == <<"mcp", SEP>> \o server \o <<SEP>> \o tool

is_mcp_tool(tool_name) ==
    Len(tool_name) >= 2 /\ tool_name[1] = "mcp" /\ tool_name[2] = SEP

\* The keys each branch of _execute_tool reads with tool_input[...]
LocalTools ==
    {"get_project_summary", "get_canvas_components", "list_canvases", "get_ideas",
     "search_ideas", "get_scaffold_job", "get_deploy_config", "get_knowledge_context",
     "create_idea", "push_to_recall", "autopilot_status", "autopilot_read_spec",
     "autopilot_read_progress", "autopilot_read_log"}
RequiredKeys(n) ==
    CASE n = "get_canvas_components" -> {"canvas_id"}
      [] n = "search_ideas" -> {"query"}
      [] n = "get_scaffold_job" -> {"job_id"}
      [] n = "get_knowledge_context" -> {"query"}
      [] n = "create_idea" -> {"title", "description"}
      [] OTHER -> {}

\* The match statement of _execute_tool; fault: the tool function raises.
dispatch_unguarded(name, tool_input, fault) ==
    IF Len(name) = 1 /\ name[1] \in LocalTools
    THEN IF ~(RequiredKeys(name[1]) \subseteq tool_input) THEN Raise("KeyError")
         ELSE IF fault THEN Raise("Exception")
         ELSE Text(name[1])
    ELSE ErrorJson("Unknown tool", name)

\* execute_tool without its `except Exception` clause
execute_tool_Unguarded(name, tool_input, fault) ==
    dispatch_unguarded(name, tool_input, fault)

execute_tool(name, tool_input, fault) ==
    LET r == dispatch_unguarded(name, tool_input, fault)
    IN IF r.kind = "raise" THEN ErrorJson("Tool execution failed", <<r.msg>>) ELSE r

\* ------------------------------------------------- MCP connections, reads
NoConn == 0
RECURSIVE Lookup(_, _)
\* self._connections.get(name): the object id, or NoConn
Lookup(table, name) ==
    IF table = <<>> THEN NoConn
    ELSE IF table[1].name = name THEN table[1].conn
    ELSE Lookup(Tail(table), name)

RECURSIVE Flatten(_)
Flatten(ss) == IF ss = <<>> THEN <<>> ELSE ss[1] \o Flatten(Tail(ss))

get_all_anthropic_tools ==
    Flatten([i \in 1..Len(connections) |->
               IF conns[connections[i].conn].status = "connected"
               THEN conns[connections[i].conn].anthropic_tools
               ELSE <<>>])

\* What the provider answers to session.call_tool
McpOutcomes == {"text", "isError", "raise"}

\* MCPConnection.call_tool
conn_call_tool(c, tool_name, outcome) ==
    IF ~c.session \/ c.status # "connected"
    THEN ErrorJson("Not connected to MCP server", c.name)
    ELSE IF outcome = "raise" THEN ErrorJson("MCP tool execution failed", tool_name)
    ELSE IF outcome = "isError" THEN ErrorJson("output", tool_name)
    ELSE Text("output")

\* MCPManager.call_tool
call_tool(namespaced_name, outcome) ==
    LET parts == split(namespaced_name, 2)
    IN IF Len(parts) # 3 \/ parts[1] # <<"mcp">>
       THEN ErrorJson("Invalid MCP tool name", namespaced_name)
       ELSE LET conn == Lookup(connections, parts[2])
            IN IF conn = NoConn
               THEN ErrorJson("MCP server is not connected", parts[2])
               ELSE conn_call_tool(conns[conn], parts[3], outcome)

\* ------------------------------------------------------------ chat state
TOOLS ==
    << <<"get_project_summary">>, <<"get_canvas_components">>, <<"list_canvases">>,
       <<"get_ideas">>, <<"search_ideas">>, <<"get_scaffold_job">>,
       <<"get_deploy_config">>, <<"get_knowledge_context">>, <<"create_idea">>,
       <<"push_to_recall">>, <<"autopilot_status">>, <<"autopilot_read_spec">>,
       <<"autopilot_read_progress">>, <<"autopilot_read_log">> >>

\* was: history variable, the conversation of the entry that was popped last
NoEntry == [hit |-> FALSE, conversation_id |-> 0, messages |-> 0, was |-> 0]
Entry(cid, lid) == [hit |-> TRUE, conversation_id |-> cid, messages |-> lid, was |-> 0]

NoResponse == [stop_reason |-> "", content |-> <<>>]
NotLoaded == -1

IdleChat ==
    [pc |-> "idle", key |-> "", no |-> 0, message |-> <<>>,
     conversation_id |-> 0, messages |-> 0, sess |-> NotLoaded, all_tools |-> <<>>,
     turn |-> 0, response |-> NoResponse, idx |-> 0, tool_results |-> <<>>,
     events |-> <<>>,
     \* history variables of the request
     outcome |-> "", streams |-> 0, base |-> <<>>, hist_after |-> <<>>, rows_after |-> 0,
     \* at arrival: was the cache hit, was no other request in flight, and
     \* which conversation the last clear_history had dropped
     hit |-> FALSE, quiet |-> FALSE, cleared_from |-> 0,
     \* rows and message_count of the conversation before the user message
     \* and after the latest _persist_message of the request
     rows_base |-> 0, count_base |-> 0, count_after |-> 0,
     \* at the opening of the latest stream: events emitted so far, the
     \* tools passed, and the catalog plus the connected providers' tools
     turn_from |-> 0, sent |-> <<>>, live |-> <<>>,
     \* the tool dispatches, each with the number of events emitted before it
     dispatched |-> <<>>]

Ev(type, name, id, text, input) ==
    [type |-> type, name |-> name, id |-> id, text |-> text, input |-> input]
TextEv(t) == Ev("text", <<>>, NoId, t, {})
ToolUseStartEv(b) == Ev("tool_use_start", b.name, b.id, <<>>, {})
ToolUseEv(b) == Ev("tool_use", b.name, NoId, <<>>, b.input)
DoneEv == Ev("done", <<>>, NoId, <<>>, {})
ErrorEv(m) == Ev("error", <<>>, NoId, <<m>>, {})

\* The user's message of the n-th request
Question(n) == <<"q", ToString(n)>>

\* What the model may answer in turn t of request n
Responses(n, t) ==
    { [stop_reason |-> "end_turn", content |-> <<TextBlock(<<"a">>)>>],
      [stop_reason |-> "tool_use",
       content |-> <<TextBlock(<<"a">>),
                     ToolUseBlock(<<n, t, 1>>, <<"get_ideas">>, {}),
                     ToolUseBlock(<<n, t, 2>>, Namespaced(<<"s1">>, <<"t1">>), {})>>],
      [stop_reason |-> "max_tokens", content |-> <<TextBlock(<<"a">>)>>] }

\* Whether a local tool function raises when the loop calls it
ToolFaults == {FALSE}

\* Errors that client.messages.stream can raise, by except clause
ModelErrors == {"AuthenticationError", "RateLimitError", "Exception"}
ErrorMessage(kind) ==
    CASE kind = "AuthenticationError" -> "Authentication failed"
      [] kind = "RateLimitError" -> "Rate limited"
      [] OTHER -> "Claude API error"

\* ------------------------------------------------------- chat, operations
\* The SELECT of _ensure_conversation ordered by updated_at ascending
LatestConversation_Oldest(k) ==
    LET mine == {c \in 1..Len(convs) : convs[c].key = k}
    IN IF mine = {} THEN 0
       ELSE CHOOSE c \in mine : \A d \in mine : convs[d].updated_at >= convs[c].updated_at

\* The most recently updated conversation of a key (0 when there is none):
\* select(Conversation).where(...).order_by(updated_at.desc()).limit(1)
LatestConversation(k) ==
    LET mine == {c \in 1..Len(convs) : convs[c].key = k}
    IN IF mine = {} THEN 0
       ELSE CHOOSE c \in mine : \A d \in mine : convs[d].updated_at <= convs[c].updated_at

\* yield {"type": "done", ...}: the generator ends after it
Done(c) == [c EXCEPT !.pc = "finished", !.outcome = "done", !.events = Append(@, DoneEv)]

\* EnterLoop with the ceiling tested as `turn <= max_turns`
EnterLoop_OffByOne(c) ==
    IF c.turn <= claude_max_turns
    THEN [c EXCEPT !.turn = @ + 1, !.streams = @ + 1, !.pc = "streaming",
                   !.turn_from = Len(c.events), !.sent = c.all_tools,
                   !.live = TOOLS \o get_all_anthropic_tools]
    ELSE Done(c)

\* `while turn < max_turns: turn += 1` and the opening of the stream
EnterLoop(c) ==
    IF c.turn < claude_max_turns
    THEN [c EXCEPT !.turn = @ + 1, !.streams = @ + 1, !.pc = "streaming",
                   !.turn_from = Len(c.events), !.sent = c.all_tools,
                   !.live = TOOLS \o get_all_anthropic_tools]
    ELSE Done(c)

\* The count ClaudeService._persist_message writes: the session's copy of the
\* row if it holds one, else what the SELECT returns
CountSeen(c) ==
    IF c.sess = NotLoaded THEN convs[c.conversation_id].message_count ELSE c.sess

\* _persist_message that writes no row for a user message
persist_rows_AssistantOnly(c, role, content) ==
    IF role = "user" THEN rows
    ELSE [rows EXCEPT ![c.conversation_id] =
            Append(@, Row(role, extract_text(content), extract_tool_uses(content)))]

\* ClaudeService._persist_message: the tables after the flush
persist_rows(c, role, content) ==
    [rows EXCEPT ![c.conversation_id] =
        Append(@, Row(role,
                      IF content.isStr THEN content.text ELSE extract_text(content),
                      IF content.isStr THEN NullJson ELSE extract_tool_uses(content)))]
\* _persist_message that leaves message_count alone
persist_convs_NoCount(c) ==
    [convs EXCEPT ![c.conversation_id].updated_at = now]

persist_convs(c) ==
    [convs EXCEPT ![c.conversation_id].message_count = CountSeen(c) + 1,
                  ![c.conversation_id].updated_at = now]

\* `if messages and messages[-1].get("role") == "user": messages.pop()`
pop_last_user(msgs) ==
    IF msgs # <<>> /\ msgs[Len(msgs)].role = "user"
    THEN SubSeq(msgs, 1, Len(msgs) - 1)
    ELSE msgs

\* The three except clauses of ClaudeService.chat; shown: the deltas forwarded
\* before the exception, msgs: the history when it is raised
Handler(r, kind, shown, msgs) ==
    LET c == chat[r]
        after == pop_last_user(msgs)
    IN /\ lists' = [lists EXCEPT ![c.messages] = after]
       /\ chat' = [chat EXCEPT ![r] =
             [c EXCEPT !.pc = "finished", !.outcome = kind,
                       !.events = (@ \o shown) \o <<ErrorEv(ErrorMessage(kind))>>,
                       !.hist_after = after,
                       !.rows_after = Len(rows[c.conversation_id])]]

\* Positions of a request that is not running
Ended == {"idle", "finished", "raised", "cancelled"}

\* POST /projects/{id}/ai/chat reaches ClaudeService.chat with a credential;
\* _ensure_conversation looks into the cache.  Slots are taken in order.
ChatStart(r, k) ==
    /\ chat[r].pc = "idle"
    /\ r = SlotOrder[started + 1]
    /\ started' = started + 1
    /\ chat' = [chat EXCEPT ![r] =
          [IdleChat EXCEPT !.key = k, !.no = started + 1, !.message = Question(started + 1),
                           !.hit = cache[k].hit, !.cleared_from = cache[k].was,
                           !.quiet = \A q \in Reqs \ {r} : chat[q].pc \in Ended,
                           !.pc = IF cache[k].hit THEN "system_prompt" ELSE "ensure_query",
                           !.conversation_id = cache[k].conversation_id,
                           !.messages = cache[k].messages]]
    /\ UNCHANGED <<cache, lists, convs, rows, now>>
    /\ UNCHANGED <<mcpVars, routeVars>>

\* auth.get_access_token() raises: the exception leaves the generator
ChatCredentialError(r, k) ==
    /\ chat[r].pc = "idle"
    /\ r = SlotOrder[started + 1]
    /\ started' = started + 1
    /\ chat' = [chat EXCEPT ![r] =
          [IdleChat EXCEPT !.key = k, !.no = started + 1, !.message = Question(started + 1),
                           !.pc = "raised", !.outcome = "credential"]]
    /\ UNCHANGED <<cache, lists, convs, rows, now>>
    /\ UNCHANGED <<mcpVars, routeVars>>

\* _ensure_conversation after a cache miss: the SELECT has returned
EnsureQuery(r) ==
    LET c == chat[r]
        conv == LatestConversation(c.key)
        lid == Len(lists) + 1
    IN /\ c.pc = "ensure_query"
       /\ IF conv # 0
          THEN /\ lists' = Append(lists, load_conversation_messages(rows[conv]))
               /\ cache' = [cache EXCEPT ![c.key] = Entry(conv, lid)]
               /\ chat' = [chat EXCEPT ![r] =
                     [c EXCEPT !.pc = "system_prompt", !.conversation_id = conv,
                               !.messages = lid, !.sess = convs[conv].message_count]]
          ELSE /\ chat' = [chat EXCEPT ![r].pc = "ensure_create"]
               /\ UNCHANGED <<lists, cache>>
       /\ UNCHANGED <<convs, rows, now, started>>
       /\ UNCHANGED <<mcpVars, routeVars>>

\* _ensure_conversation: the new Conversation row is flushed
EnsureCreate(r) ==
    LET c == chat[r]
        cid == Len(convs) + 1
        lid == Len(lists) + 1
    IN /\ c.pc = "ensure_create"
       /\ convs' = Append(convs, [key |-> c.key, message_count |-> 0, updated_at |-> now])
       /\ rows' = Append(rows, <<>>)
       /\ now' = now + 1
       /\ lists' = Append(lists, <<>>)
       /\ cache' = [cache EXCEPT ![c.key] = Entry(cid, lid)]
       /\ chat' = [chat EXCEPT ![r] =
             [c EXCEPT !.pc = "system_prompt", !.conversation_id = cid,
                       !.messages = lid, !.sess = 0]]
       /\ UNCHANGED started
       /\ UNCHANGED <<mcpVars, routeVars>>

\* A statement of _ensure_conversation raises: the exception leaves the generator
EnsureError(r) ==
    /\ chat[r].pc \in {"ensure_query", "ensure_create"}
    /\ chat' = [chat EXCEPT ![r].pc = "raised", ![r].outcome = "store"]
    /\ UNCHANGED <<cache, lists, convs, rows, now, started>>
    /\ UNCHANGED <<mcpVars, routeVars>>

\* _build_system_prompt has returned: tool list, messages.append(user message),
\* _persist_message(user message) is flushed, and the loop is entered
AppendUser(r) ==
    LET c == chat[r]
    IN /\ c.pc = "system_prompt"
       /\ lists' = [lists EXCEPT ![c.messages] =
                       Append(@, Message("user", StrContent(c.message)))]
       /\ rows' = persist_rows(c, "user", StrContent(c.message))
       /\ convs' = persist_convs(c)
       /\ now' = now + 1
       /\ chat' = [chat EXCEPT ![r] =
             EnterLoop([c EXCEPT !.base = lists[c.messages],
                                 !.all_tools = TOOLS \o get_all_anthropic_tools,
                                 !.sess = CountSeen(c) + 1,
                                 !.rows_base = Len(rows[c.conversation_id]),
                                 !.count_base = convs[c.conversation_id].message_count,
                                 !.rows_after = Len(rows[c.conversation_id]) + 1,
                                 !.count_after =
                                     persist_convs(c)[c.conversation_id].message_count])]
       /\ UNCHANGED <<cache, started>>
       /\ UNCHANGED <<mcpVars, routeVars>>

\* messages.append(user message), then _persist_message raises: the statement
\* is before the try block, the exception leaves the generator
AppendUserError(r) ==
    LET c == chat[r]
    IN /\ c.pc = "system_prompt"
       /\ lists' = [lists EXCEPT ![c.messages] =
                       Append(@, Message("user", StrContent(c.message)))]
       /\ chat' = [chat EXCEPT ![r] =
             [c EXCEPT !.pc = "raised", !.outcome = "store", !.base = lists[c.messages]]]
       /\ UNCHANGED <<cache, convs, rows, now, started>>
       /\ UNCHANGED <<mcpVars, routeVars>>

\* The forwarding of the stream without the content_block_start branch
StreamEvents_TextOnly(content) ==
    LET shown == SelectSeq(content, IsTextBlock)
    IN [i \in 1..Len(shown) |-> TextEv(shown[i].text)]

\* The events forwarded while a stream delivers content: tool_use_start at
\* the start of a tool_use block, text for the text deltas
StreamEvents(content) ==
    LET shown == SelectSeq(content, LAMBDA b : b.type \in {"text", "tool_use"})
    IN [i \in 1..Len(shown) |->
          IF shown[i].type = "text" THEN TextEv(shown[i].text) ELSE ToolUseStartEv(shown[i])]

RECURSIVE NextToolUse(_, _)
\* the next tool_use block of response.content at or after position i, or 0
NextToolUse(content, i) ==
    IF i > Len(content) THEN 0
    ELSE IF content[i].type = "tool_use" THEN i
    ELSE NextToolUse(content, i + 1)

\* AppendResults that feeds back only the results that are not errors
AppendResults_SuccessOnly(r, c, results, msgs) ==
    /\ lists' = [lists EXCEPT ![c.messages] =
          Append(msgs, Message("user",
                   ListContent(SelectSeq(results, LAMBDA b : b.content.kind # "error"))))]
    /\ chat' = [chat EXCEPT ![r] = EnterLoop([c EXCEPT !.tool_results = results, !.idx = 0])]

\* The tool-result entry is appended and the loop continues
AppendResults(r, c, results, msgs) ==
    /\ lists' = [lists EXCEPT ![c.messages] = Append(msgs, Message("user", ListContent(results)))]
    /\ chat' = [chat EXCEPT ![r] = EnterLoop([c EXCEPT !.tool_results = results, !.idx = 0])]

\* One streaming call that succeeds: the deltas are forwarded, the final
\* message is appended to the history and persisted; stop_reason decides
AssistantTurnWith(r, resp) ==
    LET c == chat[r]
        d == [c EXCEPT !.response = resp, !.events = @ \o StreamEvents(resp.content),
                       !.sess = CountSeen(c) + 1,
                       !.rows_after = Len(rows[c.conversation_id]) + 1,
                       !.count_after = persist_convs(c)[c.conversation_id].message_count]
        first == NextToolUse(resp.content, 1)
        msgs == Append(lists[c.messages], Message("assistant", ListContent(resp.content)))
    IN /\ c.pc = "streaming"
       /\ rows' = persist_rows(c, "assistant", ListContent(resp.content))
       /\ convs' = persist_convs(c)
       /\ now' = now + 1
       /\ IF resp.stop_reason = "tool_use"
          THEN IF first = 0
               THEN AppendResults(r, d, <<>>, msgs)
               ELSE /\ chat' = [chat EXCEPT ![r] =
                          [d EXCEPT !.pc = "tools", !.idx = first, !.tool_results = <<>>]]
                    /\ lists' = [lists EXCEPT ![c.messages] = msgs]
          ELSE /\ chat' = [chat EXCEPT ![r] = Done(d)]
               /\ lists' = [lists EXCEPT ![c.messages] = msgs]
       /\ UNCHANGED <<cache, started>>
       /\ UNCHANGED <<mcpVars, routeVars>>

\* What the model answers is its choice
AssistantTurn(r) ==
    \E resp \in Responses(chat[r].no, chat[r].turn) : AssistantTurnWith(r, resp)

\* The streaming call raises, before any delta or after a text delta
ModelError(r, kind, partial) ==
    /\ chat[r].pc = "streaming"
    /\ Handler(r, kind, IF partial THEN <<TextEv(<<"a">>)>> ELSE <<>>, lists[chat[r].messages])
    /\ UNCHANGED <<cache, convs, rows, now, started>>
    /\ UNCHANGED <<mcpVars, routeVars>>

\* The client goes away while the streaming call is in flight: the response
\* task is cancelled, CancelledError is raised at the await inside the stream
\* and, not being an Exception, passes every except clause of chat
ClientDisconnect(r) ==
    LET c == chat[r]
    IN /\ c.pc = "streaming"
       /\ chat' = [chat EXCEPT ![r] =
             [c EXCEPT !.pc = "cancelled", !.outcome = "cancelled",
                       !.hist_after = lists[c.messages],
                       !.rows_after = Len(rows[c.conversation_id])]]
       /\ UNCHANGED <<cache, lists, convs, rows, now, started>>
       /\ UNCHANGED <<mcpVars, routeVars>>

\* The streaming call succeeds and _persist_message(assistant entry) raises
\* inside the try block
PersistAssistantError(r) ==
    /\ chat[r].pc = "streaming"
    /\ \E resp \in Responses(chat[r].no, chat[r].turn) :
          Handler(r, "PersistError", StreamEvents(resp.content),
                  Append(lists[chat[r].messages],
                         Message("assistant", ListContent(resp.content))))
    /\ UNCHANGED <<cache, convs, rows, now, started>>
    /\ UNCHANGED <<mcpVars, routeVars>>

\* append_result that puts the newest result first
append_result_Front(results, block, result) ==
    <<ToolResultBlock(block.id, result)>> \o results

\* tool_results.append({"type": "tool_result", "tool_use_id": block.id, ...})
append_result(results, block, result) ==
    Append(results, ToolResultBlock(block.id, result))

\* One tool_use block: the tool_use event, the dispatch, tool_results.append
ToolStep(r, fault, outcome) ==
    LET c == chat[r]
        block == c.response.content[c.idx]
        result == IF is_mcp_tool(block.name)
                  THEN call_tool(block.name, outcome)
                  ELSE execute_tool(block.name, block.input, fault)
        results == append_result(c.tool_results, block, result)
        next == NextToolUse(c.response.content, c.idx + 1)
        shown == Append(c.events, ToolUseEv(block))
        d == [c EXCEPT !.events = shown,
                       !.dispatched = Append(@, [id |-> block.id, name |-> block.name,
                                                 input |-> block.input, at |-> Len(shown)])]
    IN /\ c.pc = "tools"
       /\ IF result.kind = "raise"
          THEN /\ lists' = [lists EXCEPT ![c.messages] = pop_last_user(@)]
               /\ chat' = [chat EXCEPT ![r] =
                     [d EXCEPT !.pc = "finished", !.outcome = "tool_raised",
                               !.events = Append(@, ErrorEv(ErrorMessage("Exception")))]]
          ELSE IF next = 0
               THEN AppendResults(r, d, results, lists[c.messages])
               ELSE /\ chat' = [chat EXCEPT ![r] =
                          [d EXCEPT !.idx = next, !.tool_results = results]]
                    /\ UNCHANGED lists
       /\ UNCHANGED <<cache, convs, rows, now, started>>
       /\ UNCHANGED <<mcpVars, routeVars>>

\* ClaudeService.clear_history
clear_history(k) ==
    /\ cache[k].hit
    /\ cache' = [cache EXCEPT ![k] = [NoEntry EXCEPT !.was = cache[k].conversation_id]]
    /\ UNCHANGED <<lists, convs, rows, now, chat, started>>
    /\ UNCHANGED <<mcpVars, routeVars>>

\* ClaudeService.get_history
get_history(k) == IF cache[k].hit THEN lists[cache[k].messages] ELSE <<>>

\* closed, at, quiet: history variables; close_session has answered, how
\* many chat requests had arrived by then, and whether none was running
NoSession == [key |-> "", closed |-> FALSE, at |-> 0, quiet |-> FALSE, reply |-> ""]

\* DELETE /projects/{id}/ai/session.  `service.clear_history(...)` is called
\* without await: the coroutine object is built and dropped, its body never
\* runs, and the handler returns {"status": "cleared"}
close_session(k) ==
    /\ calls < MaxCalls
    /\ calls' = calls + 1
    /\ session' = [key |-> k, closed |-> TRUE, at |-> started,
                   quiet |-> \A r \in Reqs : chat[r].pc \in Ended, reply |-> ""]
    /\ UNCHANGED chatVars
    /\ UNCHANGED <<conns, connections, enabled, mgr, ret, svc>>

\* GET /projects/{id}/ai/session: active iff the cached history is not empty
get_session(k) ==
    /\ calls < MaxCalls
    /\ calls' = calls + 1
    /\ session' = [session EXCEPT !.key = k,
                       !.reply = IF get_history(k) # <<>> THEN "active" ELSE "inactive"]
    /\ UNCHANGED chatVars
    /\ UNCHANGED <<conns, connections, enabled, mgr, ret, svc>>

\* A call of load_conversation or start_new_conversation: its arguments, its
\* position and what it returned
NoCall == [pc |-> "idle", fn |-> "", key |-> "", conversation_id |-> 0, result |-> FALSE]

\* The WHERE clause of load_conversation without the user and project tests
owned_by_AnyOwner(cid, k) ==
    cid \in 1..Len(convs)

\* select(Conversation).where(id == conversation_id, user_id == user_id,
\* project_id == project_id): does the SELECT return the row
owned_by(cid, k) ==
    cid \in 1..Len(convs) /\ convs[cid].key = k

\* ClaudeService.load_conversation: the SELECT has returned
load_conversation(cid, k) ==
    LET lid == Len(lists) + 1
    IN /\ svc.pc = "idle"
       /\ calls < MaxCalls
       /\ calls' = calls + 1
       /\ IF owned_by(cid, k)
          THEN /\ lists' = Append(lists, load_conversation_messages(rows[cid]))
               /\ cache' = [cache EXCEPT ![k] = Entry(cid, lid)]
          ELSE UNCHANGED <<lists, cache>>
       /\ svc' = [pc |-> "idle", fn |-> "load_conversation", key |-> k,
                  conversation_id |-> cid, result |-> owned_by(cid, k)]
       /\ UNCHANGED <<convs, rows, now, chat, started>>
       /\ UNCHANGED <<conns, connections, enabled, mgr, ret, session>>

\* ClaudeService.start_new_conversation up to `await db.flush()`: the cache
\* entry is popped
start_new_conversation(k) ==
    /\ svc.pc = "idle"
    /\ calls < MaxCalls
    /\ calls' = calls + 1
    /\ cache' = [cache EXCEPT ![k] =
                    IF @.hit THEN [NoEntry EXCEPT !.was = cache[k].conversation_id] ELSE @]
    /\ svc' = [pc |-> "flushing", fn |-> "start_new_conversation", key |-> k,
               conversation_id |-> 0, result |-> FALSE]
    /\ UNCHANGED <<lists, convs, rows, now, chat, started>>
    /\ UNCHANGED <<conns, connections, enabled, mgr, ret, session>>

\* start_new_conversation: the row is flushed, the new entry is cached
StartNewFlushed ==
    LET cid == Len(convs) + 1
        lid == Len(lists) + 1
    IN /\ svc.pc = "flushing"
       /\ convs' = Append(convs, [key |-> svc.key, message_count |-> 0, updated_at |-> now])
       /\ rows' = Append(rows, <<>>)
       /\ now' = now + 1
       /\ lists' = Append(lists, <<>>)
       /\ cache' = [cache EXCEPT ![svc.key] = Entry(cid, lid)]
       /\ svc' = [svc EXCEPT !.pc = "idle", !.conversation_id = cid, !.result = TRUE]
       /\ UNCHANGED <<chat, started>>
       /\ UNCHANGED <<conns, connections, enabled, mgr, calls, ret, session>>

\* ------------------------------------------------------------ MCP manager
\* Concurrent calls into the manager (HTTP requests on /mcp/servers/...); a
\* slot that is idle still shows the call that returned last.  A new call
\* takes the first free slot.
OpOrder == <<"o1", "o2">>
Ops == {OpOrder[i] : i \in 1..Len(OpOrder)}
FreeSlot(o) ==
    /\ mgr[o].pc = "idle"
    /\ \A i \in 1..Len(OpOrder) :
          OpOrder[i] = o => \A j \in 1..(i - 1) : mgr[OpOrder[j]].pc # "idle"
\* Provider names a caller may pass; _configs holds the configured ones
Servers == {<<"s1">>, <<"search">>}
\* The keys of mcp.json: any string, "my__srv" for one
Configured == {<<"s1">>, <<"my", SEP, "srv">>}
\* What session.list_tools() of a provider returns
ProviderTools(name) == << <<"t1">>, <<"t2">> >>

\* self.error = None
NoError == "<None>"
\* str(e) of the exceptions a launch, a handshake or an enumeration raises:
\* the text the exception was built with, empty when it was built without
\* one (asyncio.TimeoutError(), anyio.BrokenResourceError(), ...)
ExcMessages == {"", "No such file or directory"}

\* MCPConnection.__init__
MCPConnection(name) ==
    [name |-> name, status |-> "disconnected", tools |-> <<>>, anthropic_tools |-> <<>>,
     session |-> FALSE, exit_stack |-> FALSE, error |-> NoError]

NoResultDict == [status |-> "", error |-> "", tools |-> <<>>]
IdleOp == [pc |-> "idle", kind |-> "", name |-> <<>>, conn |-> NoConn,
           raised |-> "", result |-> NoResultDict,
           \* history variables of the call: the connection registered under
           \* the name when the call arrived and its status, the number of the
           \* call, and whether no other call was in flight
           old |-> NoConn, found |-> "", seq |-> 0, alone |-> FALSE,
           \* shutdown: the names of list(self._connections.keys()) not yet done
           todo |-> <<>>]

\* The record of a call that arrives in slot o
NewOp(o, kind, name) ==
    [IdleOp EXCEPT !.kind = kind, !.name = name, !.seq = calls + 1,
                   !.old = Lookup(connections, name),
                   !.found = IF Lookup(connections, name) = NoConn THEN ""
                             ELSE conns[Lookup(connections, name)].status,
                   !.alone = \A p \in Ops \ {o} : mgr[p].pc = "idle"]
NoRet == [fn |-> "", name |-> <<>>, input |-> {}, fault |-> FALSE, target |-> "",
          value |-> NoResult]

HasConn(table, name) == Lookup(table, name) # NoConn
\* self._connections[name] = conn
SetConn(table, name, id) ==
    IF HasConn(table, name)
    THEN [i \in 1..Len(table) |-> IF table[i].name = name THEN [name |-> name, conn |-> id]
                                                            ELSE table[i]]
    ELSE Append(table, [name |-> name, conn |-> id])
\* del self._connections[name]
DelConn(table, name) == SelectSeq(table, LAMBDA e : e.name # name)

\* MCPConnection.disconnect that forgets to clear the tool lists
Disconnected_KeepTools(c) ==
    [c EXCEPT !.exit_stack = FALSE, !.session = FALSE, !.status = "disconnected"]

\* The end of MCPConnection.disconnect, after aclose()
Disconnected(c) ==
    [c EXCEPT !.exit_stack = FALSE, !.session = FALSE, !.tools = <<>>,
              !.anthropic_tools = <<>>, !.status = "disconnected"]

\* connect_server from `conn = MCPConnection(name, config)` to the first await
\* of conn.connect(): the object is registered, then launched
NewConnection(o, op, cs) ==
    LET id == Len(cs) + 1
    IN /\ conns' = Append(cs, [MCPConnection(op.name) EXCEPT !.status = "connecting",
                                                             !.exit_stack = TRUE])
       /\ connections' = SetConn(connections, op.name, id)
       /\ mgr' = [mgr EXCEPT ![o] = [op EXCEPT !.pc = "launching", !.conn = id]]

\* MCPManager.connect_server up to its first suspension
connect_server(o, name) ==
    LET op == NewOp(o, "connect", name)
    IN /\ FreeSlot(o)
       /\ calls < MaxCalls
       /\ calls' = calls + 1
       /\ IF name \notin Configured
          THEN /\ mgr' = [mgr EXCEPT ![o] =
                     [op EXCEPT !.result = [status |-> "failed",
                                            error |-> "Unknown MCP server",
                                            tools |-> <<>>]]]
               /\ UNCHANGED <<conns, connections>>
          ELSE IF op.old # NoConn
               THEN IF conns[op.old].exit_stack
                    THEN /\ mgr' = [mgr EXCEPT ![o] =
                               [op EXCEPT !.pc = "replacing", !.conn = op.old]]
                         /\ UNCHANGED <<conns, connections>>
                    ELSE NewConnection(o, op, [conns EXCEPT ![op.old] = Disconnected(@)])
               ELSE NewConnection(o, op, conns)
       /\ UNCHANGED <<enabled, ret>>
       /\ UNCHANGED <<chatVars, routeVars>>

\* connect_server: `await self._connections[name].disconnect()` has returned
ConnectReplace(o) ==
    /\ mgr[o].pc = "replacing"
    /\ NewConnection(o, mgr[o], [conns EXCEPT ![mgr[o].conn] = Disconnected(@)])
    /\ UNCHANGED <<enabled, calls, ret>>
    /\ UNCHANGED <<chatVars, routeVars>>

\* MCPConnection.connect: stdio_client, ClientSession and initialize succeeded
ConnectLaunch(o) ==
    /\ mgr[o].pc = "launching"
    /\ conns' = [conns EXCEPT ![mgr[o].conn].session = TRUE]
    /\ mgr' = [mgr EXCEPT ![o].pc = "listing"]
    /\ UNCHANGED <<connections, enabled, calls, ret>>
    /\ UNCHANGED <<chatVars, routeVars>>

\* The result dict connect_server returns
ResultDict(c) == [status |-> c.status, error |-> c.error, tools |-> c.tools]

\* MCPConnection.connect: list_tools() has returned and every tool is taken
\* over; connect_server returns
ConnectDiscover(o) ==
    LET id == mgr[o].conn
        ts == ProviderTools(mgr[o].name)
        c == [conns[id] EXCEPT
                 !.tools = ts,
                 !.anthropic_tools = [i \in 1..Len(ts) |-> Namespaced(mgr[o].name, ts[i])],
                 !.status = "connected"]
    IN /\ mgr[o].pc = "listing"
       /\ conns' = [conns EXCEPT ![id] = c]
       /\ enabled' = enabled \cup {mgr[o].name}
       /\ mgr' = [mgr EXCEPT ![o].pc = "idle", ![o].result = ResultDict(c)]
       /\ UNCHANGED <<connections, calls, ret>>
       /\ UNCHANGED <<chatVars, routeVars>>

\* The except clause of MCPConnection.connect, entered with n tools taken over
connect_failed(c, name, n, e) ==
    LET ts == SubSeq(ProviderTools(name), 1, n)
    IN [c EXCEPT !.tools = ts,
                 !.anthropic_tools = [i \in 1..Len(ts) |-> Namespaced(name, ts[i])],
                 !.status = "failed", !.error = e]

\* MCPConnection.connect: an await of the try block raises
ConnectError(o) ==
    /\ mgr[o].pc \in {"launching", "listing"}
    /\ \E e \in ExcMessages :
          conns' = [conns EXCEPT ![mgr[o].conn] = connect_failed(@, mgr[o].name, 0, e)]
    /\ mgr' = [mgr EXCEPT ![o].pc = "closing"]
    /\ UNCHANGED <<connections, enabled, calls, ret>>
    /\ UNCHANGED <<chatVars, routeVars>>

\* MCPConnection.connect: list_tools() has returned and the loop over its
\* tools raises after some of them were taken over
ConnectDiscoverError(o) ==
    /\ mgr[o].pc = "listing"
    /\ \E n \in 0..Len(ProviderTools(mgr[o].name)), e \in ExcMessages :
          conns' = [conns EXCEPT ![mgr[o].conn] = connect_failed(@, mgr[o].name, n, e)]
    /\ mgr' = [mgr EXCEPT ![o].pc = "closing"]
    /\ UNCHANGED <<connections, enabled, calls, ret>>
    /\ UNCHANGED <<chatVars, routeVars>>

\* MCPConnection.connect: aclose() of the except clause is over;
\* connect_server returns the failed connection
ConnectClosed(o) ==
    LET c == [conns[mgr[o].conn] EXCEPT !.exit_stack = FALSE]
    IN /\ mgr[o].pc = "closing"
       /\ conns' = [conns EXCEPT ![mgr[o].conn] = c]
       /\ mgr' = [mgr EXCEPT ![o].pc = "idle", ![o].result = ResultDict(c)]
       /\ UNCHANGED <<connections, enabled, calls, ret>>
       /\ UNCHANGED <<chatVars, routeVars>>

\* disconnect_server after conn.disconnect(): del, discard, return
Unregister(o, op) ==
    IF HasConn(connections, op.name)
    THEN /\ connections' = DelConn(connections, op.name)
         /\ enabled' = enabled \ {op.name}
         /\ mgr' = [mgr EXCEPT ![o] = [op EXCEPT !.pc = "idle"]]
    ELSE /\ mgr' = [mgr EXCEPT ![o] = [op EXCEPT !.pc = "idle", !.raised = "KeyError"]]
         /\ UNCHANGED <<connections, enabled>>

\* MCPManager.disconnect_server up to its first suspension
disconnect_server(o, name) ==
    LET op == NewOp(o, "disconnect", name)
    IN /\ FreeSlot(o)
       /\ calls < MaxCalls
       /\ calls' = calls + 1
       /\ IF op.old # NoConn
          THEN IF conns[op.old].exit_stack
               THEN /\ mgr' = [mgr EXCEPT ![o] =
                          [op EXCEPT !.pc = "disconnecting", !.conn = op.old]]
                    /\ UNCHANGED <<conns, connections, enabled>>
               ELSE /\ conns' = [conns EXCEPT ![op.old] = Disconnected(@)]
                    /\ Unregister(o, op)
          ELSE /\ enabled' = enabled \ {name}
               /\ mgr' = [mgr EXCEPT ![o] = op]
               /\ UNCHANGED <<conns, connections>>
       /\ UNCHANGED ret
       /\ UNCHANGED <<chatVars, routeVars>>

\* disconnect_server: `await self._connections[name].disconnect()` has returned
DisconnectClosed(o) ==
    /\ mgr[o].pc = "disconnecting"
    /\ conns' = [conns EXCEPT ![mgr[o].conn] = Disconnected(@)]
    /\ Unregister(o, mgr[o])
    /\ UNCHANGED <<calls, ret>>
    /\ UNCHANGED <<chatVars, routeVars>>

\* The loop of MCPManager.shutdown over the names it has listed, run until it
\* is over or has to wait for the aclose() of a connection: the tables as
\* they are then, and where the call stands
RECURSIVE shutdown_loop(_, _, _, _)
shutdown_loop(cs, table, en, todo) ==
    IF todo = <<>>
    THEN [conns |-> cs, connections |-> table, enabled |-> en,
          pc |-> "idle", conn |-> NoConn, todo |-> <<>>]
    ELSE LET id == Lookup(table, Head(todo))
         IN IF id = NoConn
            THEN shutdown_loop(cs, table, en \ {Head(todo)}, Tail(todo))
            ELSE IF cs[id].exit_stack
            THEN [conns |-> cs, connections |-> table, enabled |-> en,
                  pc |-> "shutdown_closing", conn |-> id, todo |-> todo]
            ELSE shutdown_loop([cs EXCEPT ![id] = Disconnected(@)],
                               DelConn(table, Head(todo)), en \ {Head(todo)}, Tail(todo))

\* The loop goes on from the tables cs, table, en with the names todo
ShutdownGoesOn(o, op, cs, table, en, todo) ==
    LET res == shutdown_loop(cs, table, en, todo)
    IN /\ conns' = res.conns
       /\ connections' = res.connections
       /\ enabled' = res.enabled
       /\ mgr' = [mgr EXCEPT ![o] =
             [op EXCEPT !.pc = res.pc, !.conn = res.conn, !.todo = res.todo]]

\* MCPManager.shutdown up to its first suspension
shutdown(o) ==
    LET op == NewOp(o, "shutdown", <<>>)
        names == [i \in 1..Len(connections) |-> connections[i].name]
    IN /\ FreeSlot(o)
       /\ calls < MaxCalls
       /\ calls' = calls + 1
       /\ ShutdownGoesOn(o, op, conns, connections, enabled, names)
       /\ UNCHANGED ret
       /\ UNCHANGED <<chatVars, routeVars>>

\* shutdown, inside disconnect_server(name): the aclose() has returned; the
\* connection is cleared, `del self._connections[name]` runs, the loop goes on
ShutdownClosed(o) ==
    LET op == mgr[o]
        name == Head(op.todo)
        cs == [conns EXCEPT ![op.conn] = Disconnected(@)]
    IN /\ op.pc = "shutdown_closing"
       /\ IF HasConn(connections, name)
          THEN ShutdownGoesOn(o, op, cs, DelConn(connections, name),
                              enabled \ {name}, Tail(op.todo))
          ELSE /\ conns' = cs
               /\ mgr' = [mgr EXCEPT ![o] = [op EXCEPT !.pc = "idle", !.raised = "KeyError"]]
               /\ UNCHANGED <<connections, enabled>>
       /\ UNCHANGED <<calls, ret>>
       /\ UNCHANGED <<chatVars, routeVars>>

\* MCPManager.get_available_servers: what it reports of each configured name
get_available_servers ==
    { [name |-> n,
       status |-> IF HasConn(connections, n) THEN conns[Lookup(connections, n)].status
                  ELSE "disconnected",
       tool_count |-> IF HasConn(connections, n) THEN Len(conns[Lookup(connections, n)].tools)
                      ELSE 0,
       enabled |-> n \in enabled] : n \in Configured }

\* ----------------------------------------------------- tool calls, direct
\* Tool names a model may ask for
CallNames ==
    { Namespaced(<<"s1">>, <<"t1">>), Namespaced(<<"search">>, <<"query">>),
      <<"mcp", SEP, "s1">>, <<"mcp", SEP, SEP, "t1">>,
      <<"mcpx", SEP, "s1", SEP, "t1">>, <<"get_ideas">> }
ExecNames ==
    { <<"get_ideas">>, <<"search_ideas">>, <<"create_idea">>, <<"autopilot_status">>,
      <<"nope">>, Namespaced(<<"s1">>, <<"t1">>) }
ExecInputs == { {}, {"query"}, {"title"}, {"title", "description"} }

\* The provider a namespaced name leads to, as the caller finds it
TargetState(name) ==
    LET parts == split(name, 2)
    IN IF Len(parts) # 3 \/ parts[1] # <<"mcp">> THEN "malformed"
       ELSE IF ~HasConn(connections, parts[2]) THEN "absent"
       ELSE conns[Lookup(connections, parts[2])].status

\* await mcp_mgr.call_tool(name, input)
CallTool(name, outcome) ==
    /\ calls < MaxCalls
    /\ calls' = calls + 1
    /\ ret' = [fn |-> "call_tool", name |-> name, input |-> {}, fault |-> FALSE,
               target |-> TargetState(name), value |-> call_tool(name, outcome)]
    /\ UNCHANGED <<conns, connections, enabled, mgr>>
    /\ UNCHANGED <<chatVars, routeVars>>

\* await _execute_tool(name, input, ...)
ExecuteTool(name, tool_input, fault) ==
    /\ calls < MaxCalls
    /\ calls' = calls + 1
    /\ ret' = [fn |-> "_execute_tool", name |-> name, input |-> tool_input, fault |-> fault,
               target |-> "", value |-> execute_tool(name, tool_input, fault)]
    /\ UNCHANGED <<conns, connections, enabled, mgr>>
    /\ UNCHANGED <<chatVars, routeVars>>

\* The names of the merged tool list that come from providers
OfferedNames ==
    {get_all_anthropic_tools[i] : i \in 1..Len(get_all_anthropic_tools)}

\* The model asks for a tool of the merged list
CallOffered ==
    \E name \in OfferedNames, outcome \in McpOutcomes : CallTool(name, outcome)

\* The tool call the loop is at goes to a connected provider: the loop waits
\* in `await self.session.call_tool(tool_name, arguments)`
AwaitsProvider(r) ==
    /\ chat[r].pc = "tools"
    /\ is_mcp_tool(chat[r].response.content[chat[r].idx].name)
    /\ TargetState(chat[r].response.content[chat[r].idx].name) = "connected"
    /\ conns[Lookup(connections,
                    split(chat[r].response.content[chat[r].idx].name, 2)[2])].session

\* A tool call that waits for no provider returns
ToolReturns(r) ==
    /\ ~AwaitsProvider(r)
    /\ \E fault \in ToolFaults : ToolStep(r, fault, "text")

\* The provider answers the tool call the loop waits for
ProviderAnswers(r) ==
    /\ AwaitsProvider(r)
    /\ \E outcome \in McpOutcomes : ToolStep(r, FALSE, outcome)

\* ------------------------------------------------------------------ init
InitChat ==
    /\ cache = [k \in AllKeys |-> NoEntry]
    /\ lists = <<>>
    /\ convs = <<>>
    /\ rows = <<>>
    /\ now = 1
    /\ chat = [r \in Reqs |-> IdleChat]
    /\ started = 0

InitMcp ==
    /\ conns = <<>>
    /\ connections = <<>>
    /\ enabled = {}
    /\ mgr = [o \in Ops |-> IdleOp]
    /\ calls = 0
    /\ ret = NoRet

InitRoutes == session = NoSession /\ svc = NoCall

Init == InitChat /\ InitMcp /\ InitRoutes

NextChat ==
    \/ \E r \in Reqs, k \in Keys : ChatStart(r, k)
    \/ \E r \in Reqs, k \in Keys : ChatCredentialError(r, k)
    \/ \E r \in Reqs : EnsureQuery(r)
    \/ \E r \in Reqs : EnsureCreate(r)
    \/ \E r \in Reqs : EnsureError(r)
    \/ \E r \in Reqs : AppendUser(r)
    \/ \E r \in Reqs : AppendUserError(r)
    \/ \E r \in Reqs : AssistantTurn(r)
    \/ \E r \in Reqs, kind \in ModelErrors, partial \in BOOLEAN : ModelError(r, kind, partial)
    \/ \E r \in Reqs : PersistAssistantError(r)
    \/ \E r \in Reqs : ClientDisconnect(r)
    \/ \E r \in Reqs, fault \in ToolFaults, outcome \in McpOutcomes : ToolStep(r, fault, outcome)
    \/ \E k \in Keys : clear_history(k)

SpecChat == Init /\ [][NextChat]_vars

NextMcp ==
    \/ \E o \in Ops, name \in Servers : connect_server(o, name)
    \/ \E o \in Ops : ConnectReplace(o)
    \/ \E o \in Ops : ConnectLaunch(o)
    \/ \E o \in Ops : ConnectDiscover(o)
    \/ \E o \in Ops : ConnectError(o)
    \/ \E o \in Ops : ConnectDiscoverError(o)
    \/ \E o \in Ops : ConnectClosed(o)
    \/ \E o \in Ops, name \in Servers : disconnect_server(o, name)
    \/ \E o \in Ops : DisconnectClosed(o)
    \/ \E o \in Ops : shutdown(o)
    \/ \E o \in Ops : ShutdownClosed(o)

\* Calls into the manager that overlap in any way
SpecMcp == Init /\ [][NextMcp]_vars

\* Tool calls between manager calls that come one after the other
NextTools ==
    \/ \E name \in Servers : connect_server(OpOrder[1], name)
    \/ ConnectLaunch(OpOrder[1])
    \/ ConnectDiscover(OpOrder[1])
    \/ ConnectError(OpOrder[1])
    \/ ConnectDiscoverError(OpOrder[1])
    \/ ConnectClosed(OpOrder[1])
    \/ ConnectReplace(OpOrder[1])
    \/ \E name \in Servers : disconnect_server(OpOrder[1], name)
    \/ DisconnectClosed(OpOrder[1])
    \/ \E name \in CallNames, outcome \in McpOutcomes : CallTool(name, outcome)
    \/ \E name \in ExecNames, tool_input \in ExecInputs, fault \in BOOLEAN :
          ExecuteTool(name, tool_input, fault)

SpecTools == Init /\ [][NextTools]_vars

\* One chat request, the session endpoints, and manager calls that come one
\* after the other
NextApp ==
    \/ \E k \in Keys : ChatStart(SlotOrder[1], k)
    \/ EnsureQuery(SlotOrder[1])
    \/ EnsureCreate(SlotOrder[1])
    \/ AppendUser(SlotOrder[1])
    \/ AssistantTurn(SlotOrder[1])
    \/ \E fault \in ToolFaults, outcome \in McpOutcomes : ToolStep(SlotOrder[1], fault, outcome)
    \/ \E name \in Servers : connect_server(OpOrder[1], name)
    \/ ConnectLaunch(OpOrder[1])
    \/ ConnectDiscover(OpOrder[1])
    \/ ConnectReplace(OpOrder[1])
    \/ \E name \in Servers : disconnect_server(OpOrder[1], name)
    \/ DisconnectClosed(OpOrder[1])
    \/ \E k \in Keys : close_session(k)
    \/ \E k \in Keys : get_session(k)

SpecApp == Init /\ [][NextApp]_vars

\* One chat request and the explicit conversation operations of the service
NextService ==
    \/ \E k \in Keys : ChatStart(SlotOrder[1], k)
    \/ EnsureQuery(SlotOrder[1])
    \/ EnsureCreate(SlotOrder[1])
    \/ AppendUser(SlotOrder[1])
    \/ AssistantTurn(SlotOrder[1])
    \/ \E fault \in ToolFaults, outcome \in McpOutcomes : ToolStep(SlotOrder[1], fault, outcome)
    \/ \E k \in Keys : clear_history(k)
    \/ \E cid \in 1..(Len(convs) + 1), k \in AllKeys : load_conversation(cid, k)
    \/ \E k \in AllKeys : start_new_conversation(k)
    \/ StartNewFlushed

SpecService == Init /\ [][NextService]_vars

\* Manager calls that come one after the other, on every configured name,
\* and calls of the tools the merged list offers
NextRouting ==
    \/ \E name \in Configured : connect_server(OpOrder[1], name)
    \/ ConnectLaunch(OpOrder[1])
    \/ ConnectDiscover(OpOrder[1])
    \/ ConnectReplace(OpOrder[1])
    \/ \E name \in Configured : disconnect_server(OpOrder[1], name)
    \/ DisconnectClosed(OpOrder[1])
    \/ CallOffered

SpecRouting == Init /\ [][NextRouting]_vars

\* One chat request and a provider that is connected meanwhile; what the
\* provider does with a tool call is up to the provider
NextLive ==
    \/ \E k \in Keys : ChatStart(SlotOrder[1], k)
    \/ EnsureQuery(SlotOrder[1])
    \/ EnsureCreate(SlotOrder[1])
    \/ AppendUser(SlotOrder[1])
    \/ AssistantTurn(SlotOrder[1])
    \/ ToolReturns(SlotOrder[1])
    \/ ProviderAnswers(SlotOrder[1])
    \/ \E name \in Servers : connect_server(OpOrder[1], name)
    \/ ConnectLaunch(OpOrder[1])
    \/ ConnectDiscover(OpOrder[1])

\* The event loop resumes a coroutine whose awaited call has returned: the
\* store is local and the model client has a timeout, so these calls return;
\* session.call_tool has none and returns when the provider answers
FairLive ==
    /\ WF_vars(EnsureQuery(SlotOrder[1]))
    /\ WF_vars(EnsureCreate(SlotOrder[1]))
    /\ WF_vars(AppendUser(SlotOrder[1]))
    /\ WF_vars(AssistantTurn(SlotOrder[1]))
    /\ WF_vars(ToolReturns(SlotOrder[1]))

SpecLive == Init /\ [][NextLive]_vars /\ FairLive

\* ================================================================ claims
TerminalEvents(evts) == SelectSeq(evts, LAMBDA e : e.type \in {"done", "error"})
InLoop(r) == chat[r].pc \in {"streaming", "tools"}

\* C1: whatever the model answers, a chat request opens at most
\* claude_max_turns streaming calls; while it loops it has emitted no terminal
\* event, and once it has left the loop it has emitted exactly one, as its
\* last event.
C1_BoundedTurns ==
    \A r \in Reqs :
        /\ chat[r].streams <= claude_max_turns
        /\ InLoop(r) => TerminalEvents(chat[r].events) = <<>>
        /\ chat[r].pc = "finished" =>
              /\ Len(TerminalEvents(chat[r].events)) = 1
              /\ chat[r].events[Len(chat[r].events)].type \in {"done", "error"}

\* A request whose model asked for tools in every turn has stopped at the ceiling.
C1_Witness ==
    \E r \in Reqs :
        /\ chat[r].pc = "finished"
        /\ chat[r].streams = claude_max_turns
        /\ chat[r].response.stop_reason = "tool_use"
        /\ chat[r].events[Len(chat[r].events)] = DoneEv

\* C2 (as claimed): every chat request that has ended, whichever step failed,
\* has emitted exactly one terminal event, and it is its last event.
C2_OneTerminalEvent ==
    \A r \in Reqs :
        chat[r].pc \in {"finished", "raised"} =>
            /\ Len(TerminalEvents(chat[r].events)) = 1
            /\ chat[r].events[Len(chat[r].events)].type \in {"done", "error"}

\* C3 (as claimed, for a request that runs alone): right after a model-call
\* failure the in-memory history is what it was before the request's user
\* message, and the durable store holds one message more than the history.
C3_RollbackToPrecedingEntry ==
    \A r \in Reqs :
        (chat[r].pc = "finished" /\ chat[r].outcome \in ModelErrors /\ started = 1) =>
            /\ chat[r].hist_after = chat[r].base
            /\ chat[r].rows_after = Len(chat[r].hist_after) + 1

\* Message lists with every tool-call id forgotten
EraseIds(msgs) ==
    [i \in 1..Len(msgs) |->
        [msgs[i] EXCEPT !.content.blocks =
            [j \in 1..Len(msgs[i].content.blocks) |->
                [msgs[i].content.blocks[j] EXCEPT !.id = NoId]]]]

\* C4 (as claimed, for a request that runs alone): after a completed request
\* the list rebuilt from the persisted rows equals the cached list, tool-call
\* ids aside.
C4_ReplayFidelity ==
    \A r \in Reqs :
        (chat[r].pc = "finished" /\ chat[r].outcome = "done" /\ started = 1) =>
            EraseIds(load_conversation_messages(rows[chat[r].conversation_id]))
                = EraseIds(lists[chat[r].messages])

\* C5 (as claimed): no two chat requests of the same (user, project) are
\* inside their turn loop at the same time.
C5_TurnsSequential ==
    \A r1, r2 \in Reqs :
        (r1 # r2 /\ chat[r1].key = chat[r2].key) => ~(InLoop(r1) /\ InLoop(r2))

\* C6 (as claimed): message_count of every conversation is the number of its
\* persisted message rows.
C6_MessageCount ==
    \A c \in 1..Len(convs) : convs[c].message_count = Len(rows[c])

\* C7: a tool call returns a string, never an exception; the string carries
\* the error marker whenever the name is unknown or malformed, a required
\* input is missing, the tool function raises or the provider is not
\* connected; for a provider that is not in the table it is the
\* 'is not connected' error.
C7_NeverRaises ==
    /\ ret.value.kind \in {"text", "error"}
    /\ ret.fn = "call_tool" =>
          /\ ret.target # "connected" => ret.value.kind = "error"
          /\ ret.target = "malformed" => ret.value.msg = "Invalid MCP tool name"
          /\ ret.target = "absent" => ret.value.msg = "MCP server is not connected"
    /\ ret.fn = "_execute_tool" =>
          /\ (Len(ret.name) # 1 \/ ret.name[1] \notin LocalTools) =>
                ret.value = ErrorJson("Unknown tool", ret.name)
          /\ (Len(ret.name) = 1 /\ ret.name[1] \in LocalTools
                /\ (ret.fault \/ ~(RequiredKeys(ret.name[1]) \subseteq ret.input))) =>
                ret.value.kind = "error"
    /\ \A name \in CallNames, outcome \in McpOutcomes :
          call_tool(name, outcome).kind \in {"text", "error"}
    /\ \A name \in ExecNames, tool_input \in ExecInputs, fault \in BOOLEAN :
          execute_tool(name, tool_input, fault).kind \in {"text", "error"}

\* mcp__search__query was called while "search" is not in the table.
C7_Witness ==
    /\ ret.fn = "call_tool"
    /\ ret.name = Namespaced(<<"search">>, <<"query">>)
    /\ ret.value = ErrorJson("MCP server is not connected", <<"search">>)

ToolUseIds(content) ==
    LET tu == SelectSeq(content, IsToolUse) IN [i \in 1..Len(tu) |-> tu[i].id]
BlockIds(blocks) == [i \in 1..Len(blocks) |-> blocks[i].id]
IsResultEntry(m) == m.role = "user" /\ ~m.content.isStr

\* C8: the results of a turn follow the order of its tool_use blocks, one per
\* block and with its id; the loop opens the next streaming call (or ends)
\* only with every tool call of the turn resolved; and every tool-result
\* entry of a history carries, in order, the ids of the tool_use blocks of
\* an assistant entry before it.
C8_ResultsInOrder ==
    /\ \A r \in Reqs :
          LET ids == ToolUseIds(chat[r].response.content)
          IN /\ chat[r].pc = "tools" =>
                   /\ Len(chat[r].tool_results) < Len(ids)
                   /\ BlockIds(chat[r].tool_results) = SubSeq(ids, 1, Len(chat[r].tool_results))
             /\ (chat[r].pc \in {"streaming", "finished"}
                    /\ chat[r].response.stop_reason = "tool_use") =>
                   BlockIds(chat[r].tool_results) = ids
    /\ \A l \in 1..Len(lists) : \A i \in 1..Len(lists[l]) :
          IsResultEntry(lists[l][i]) =>
             \E j \in 1..(i - 1) :
                /\ lists[l][j].role = "assistant"
                /\ ToolUseIds(lists[l][j].content.blocks) = BlockIds(lists[l][i].content.blocks)

\* A second streaming call is open after a turn with two tool calls.
C8_Witness ==
    \E r \in Reqs :
        /\ chat[r].pc = "streaming"
        /\ chat[r].turn = 2
        /\ Len(chat[r].tool_results) = 2
        /\ IsResultEntry(lists[chat[r].messages][Len(lists[chat[r].messages])])

\* No call but the one in slot o has run since it arrived
RunsAlone(o) == mgr[o].alone /\ calls = mgr[o].seq

\* C9 (as claimed): a connect for a provider that is connected, with no other
\* call running, leaves the registered connection in place and connected at
\* every moment, and returns it as connected.
C9_ConnectTwiceNoop ==
    \A o \in Ops :
        (mgr[o].kind = "connect" /\ mgr[o].found = "connected" /\ RunsAlone(o)) =>
            /\ Lookup(connections, mgr[o].name) = mgr[o].old
            /\ conns[mgr[o].old].status = "connected"
            /\ mgr[o].pc = "idle" => mgr[o].result.status = "connected"

\* C10 (as claimed): the tool lists of every connection are empty unless its
\* status is connected.
C10_ToolsOnlyWhenConnected ==
    \A i \in 1..Len(conns) :
        conns[i].status # "connected" =>
            conns[i].tools = <<>> /\ conns[i].anthropic_tools = <<>>

\* The tools a provider has in the merged list
Contributed(name) ==
    SelectSeq(get_all_anthropic_tools,
              LAMBDA t : Len(split(t, 2)) = 3 /\ split(t, 2)[2] = name)

\* The connect in slot o has returned after a failure: the name is not
\* configured, or the except clause of MCPConnection.connect has run
ConnectHasFailed(o) ==
    /\ mgr[o].kind = "connect"
    /\ mgr[o].pc = "idle"
    /\ \/ mgr[o].name \notin Configured
       \/ mgr[o].conn # NoConn /\ conns[mgr[o].conn].error # NoError

\* C11 (as claimed): a connect that fails, with no other call running, returns
\* without raising a result whose status is failed and whose error is a
\* non-empty string, and the provider has no tool in the merged list.
C11_ConnectFailure ==
    \A o \in Ops :
        (ConnectHasFailed(o) /\ RunsAlone(o)) =>
            /\ mgr[o].raised = ""
            /\ mgr[o].result.status = "failed"
            /\ mgr[o].result.error \notin {NoError, ""}
            /\ Contributed(mgr[o].name) = <<>>

\* The disconnect in slot o has returned and no other call has run since it arrived
DisconnectReturned(o) ==
    mgr[o].kind = "disconnect" /\ mgr[o].pc = "idle" /\ RunsAlone(o)

\* C12: a disconnect that runs alone returns without error, the provider is
\* then neither in the table nor enabled, and the connection it found is
\* torn down: no channel, no session, no tools, status disconnected.  For a
\* provider that is not in the table (never connected, or disconnected by
\* the call before) the call returns at once and changes nothing.
C12_DisconnectIdempotent ==
    /\ [](\A o \in Ops :
            DisconnectReturned(o) =>
                /\ mgr[o].raised = ""
                /\ ~HasConn(connections, mgr[o].name)
                /\ mgr[o].name \notin enabled
                /\ mgr[o].old # NoConn =>
                      /\ conns[mgr[o].old].status = "disconnected"
                      /\ conns[mgr[o].old].tools = <<>>
                      /\ conns[mgr[o].old].anthropic_tools = <<>>
                      /\ ~conns[mgr[o].old].session
                      /\ ~conns[mgr[o].old].exit_stack)
    /\ [][\A o \in Ops :
            (mgr'[o].kind = "disconnect" /\ calls' = calls + 1 /\ mgr'[o].seq = calls'
                /\ mgr'[o].old = NoConn) =>
                /\ mgr'[o].pc = "idle"
                /\ mgr'[o].raised = ""
                /\ conns' = conns
                /\ connections' = connections
                /\ enabled' = enabled \ {mgr'[o].name}]_vars

\* A provider was connected, disconnected, and disconnected once more.
C12_Witness ==
    \E o \in Ops :
        /\ DisconnectReturned(o)
        /\ mgr[o].old = NoConn
        /\ \E i \in 1..Len(conns) :
              /\ conns[i].name = mgr[o].name
              /\ conns[i].status = "disconnected"
              /\ ~conns[i].session

\* The events a request has emitted since it opened its latest stream
TurnEvents(r) ==
    [i \in 1..(Len(chat[r].events) - chat[r].turn_from) |->
        chat[r].events[chat[r].turn_from + i]]

\* C13 (as claimed): when a model call fails, the events of the failed turn
\* are the error event alone: no text and no tool-call event comes before it.
C13_OnlyErrorEvent ==
    \A r \in Reqs :
        (chat[r].pc = "finished" /\ chat[r].outcome \in ModelErrors) =>
            TurnEvents(r) = <<ErrorEv(ErrorMessage(chat[r].outcome))>>

\* C14 (as claimed, for a request that runs alone): after a client disconnect
\* during a streaming call the in-memory history and the persisted rows are
\* what they were before the request: nothing of the request remains.
C14_DisconnectLeavesNoEntry ==
    \A r \in Reqs :
        (chat[r].pc = "cancelled" /\ chat[r].quiet /\ started = chat[r].no) =>
            /\ chat[r].hist_after = chat[r].base
            /\ chat[r].rows_after = chat[r].rows_base

\* The row _persist_message writes for the user message of request r
UserRow(r) == Row("user", chat[r].message, NullJson)

\* C16: the step that opens the first streaming call of a request leaves the
\* user's message as the last entry of the history and as the last row of
\* the conversation; and a request whose model call has failed has its user
\* message among the persisted rows.
C16_UserMessageFirst ==
    /\ [][\A r \in Reqs :
            (chat[r].streams = 0 /\ chat'[r].streams = 1) =>
                LET h == lists'[chat'[r].messages]
                    rs == rows'[chat'[r].conversation_id]
                IN /\ h # <<>>
                   /\ h[Len(h)] = Message("user", StrContent(chat'[r].message))
                   /\ rs # <<>>
                   /\ rs[Len(rs)] = Row("user", chat'[r].message, NullJson)]_vars
    /\ [](\A r \in Reqs :
            (chat[r].pc = "finished" /\ chat[r].outcome \in ModelErrors) =>
                \E i \in 1..Len(rows[chat[r].conversation_id]) :
                    rows[chat[r].conversation_id][i] = UserRow(r))

\* The first model call of a request has failed; its user message is persisted.
C16_Witness ==
    \E r \in Reqs :
        /\ chat[r].pc = "finished"
        /\ chat[r].outcome = "RateLimitError"
        /\ chat[r].streams = 1
        /\ rows[chat[r].conversation_id][chat[r].rows_after] = UserRow(r)

\* Request r2 arrived right after r1, with r1 over and the cache entry in place
Consecutive(r1, r2) ==
    /\ chat[r1].no >= 1
    /\ chat[r2].no = chat[r1].no + 1
    /\ chat[r2].quiet
    /\ chat[r2].hit

\* Request r has ended with done after a single response without tool call
NoToolDone(r) ==
    /\ chat[r].pc = "finished"
    /\ chat[r].outcome = "done"
    /\ chat[r].streams = 1
    /\ chat[r].response.stop_reason # "tool_use"

\* C17: of two consecutive requests of one user and project, with no clear in
\* between, the second uses the conversation of the first, and each of them
\* that ends without tool call has persisted its user message and one
\* assistant message, and raised message_count by 2.
C17_TwoTurnsSameConversation ==
    \A r1, r2 \in Reqs :
        Consecutive(r1, r2) =>
            /\ chat[r2].conversation_id = chat[r1].conversation_id
            /\ \A r \in {r1, r2} :
                  NoToolDone(r) =>
                     LET rs == rows[chat[r].conversation_id]
                     IN /\ chat[r].rows_after = chat[r].rows_base + 2
                        /\ rs[chat[r].rows_base + 1] = UserRow(r)
                        /\ rs[chat[r].rows_base + 2].role = "assistant"
                        /\ chat[r].count_after = chat[r].count_base + 2

\* Two requests without tool call, one after the other: 4 rows, count 4.
C17_Witness ==
    \E r1, r2 \in Reqs :
        /\ Consecutive(r1, r2)
        /\ NoToolDone(r1)
        /\ NoToolDone(r2)
        /\ Len(rows[chat[r2].conversation_id]) = 4
        /\ convs[chat[r2].conversation_id].message_count = 4

\* C18: every tool dispatch comes right after the tool_use event of its block
\* (name and input), which comes after a tool_use_start event with the
\* block's name and id; every tool_use event belongs to a dispatch; the
\* dispatches of a turn follow the order of its tool_use blocks; and a done
\* event is the last event of its request.
C18_EventOrder ==
    \A r \in Reqs :
        LET evs == chat[r].events
            log == chat[r].dispatched
            n == Len(chat[r].tool_results)
        IN /\ \A k \in 1..Len(log) :
                 /\ log[k].at \in 1..Len(evs)
                 /\ evs[log[k].at] = Ev("tool_use", log[k].name, NoId, <<>>, log[k].input)
                 /\ \E i \in 1..(log[k].at - 1) :
                       evs[i] = Ev("tool_use_start", log[k].name, log[k].id, <<>>, {})
                 /\ \A l \in 1..(k - 1) : log[l].at < log[k].at
           /\ Len(SelectSeq(evs, LAMBDA e : e.type = "tool_use")) = Len(log)
           /\ n <= Len(log)
           /\ chat[r].response.stop_reason = "tool_use" =>
                 /\ n <= Len(ToolUseIds(chat[r].response.content))
                 /\ [i \in 1..n |-> log[Len(log) - n + i].id]
                       = [i \in 1..n |-> ToolUseIds(chat[r].response.content)[i]]
           /\ \A i \in 1..Len(evs) : evs[i].type = "done" => i = Len(evs)

\* A request with two tool calls in its first turn has ended with done.
C18_Witness ==
    \E r \in Reqs :
        /\ chat[r].pc = "finished"
        /\ chat[r].outcome = "done"
        /\ Len(chat[r].dispatched) = 2
        /\ chat[r].events[Len(chat[r].events)] = DoneEv

\* C19 (as claimed): a request that arrives after clear_history, the requests
\* before it being over, does not use the conversation that was cached
\* before the clear.
C19_ClearStartsNew ==
    \A r \in Reqs :
        (chat[r].cleared_from # 0
            /\ \A q \in Reqs \ {r} : chat[q].pc = "finished" /\ chat[q].no < chat[r].no
            /\ chat[r].pc \in {"system_prompt", "streaming", "tools", "finished", "cancelled"}) =>
            chat[r].conversation_id # chat[r].cleared_from

\* C15 (as claimed): the tools passed to a streaming call are the local
\* catalog followed by the tools of the providers connected when the call
\* is opened.
C15_ToolsPerTurn ==
    \A r \in Reqs : chat[r].pc = "streaming" => chat[r].sent = chat[r].live

\* C20 (as claimed): once the session-close endpoint has answered 'cleared',
\* no chat request running, and until the next chat request arrives, the
\* cached history of the pair is empty and the session endpoint does not
\* answer active.
C20_CloseEmptiesHistory ==
    (session.closed /\ session.quiet /\ started = session.at) =>
        /\ get_history(session.key) = <<>>
        /\ session.reply # "active"

\* The conversations of a key
ConversationsOf(k) == {c \in 1..Len(convs) : convs[c].key = k}

\* C21: on a cache hit a request gets the cached conversation id and the
\* cached list itself, and nothing is written; a request goes to the store
\* only on a miss; when the SELECT finds conversations of the pair, the
\* request gets the most recently updated one with the messages rebuilt from
\* its rows, and that is what is cached; it goes on to create a conversation
\* only when the SELECT found none, and then the new row has message_count 0
\* and no messages and an empty list is cached.
C21_EnsureConversation ==
    [][\A r \in Reqs :
         LET c == chat[r]
             d == chat'[r]
             k == d.key
         IN /\ (c.pc = "idle" /\ d.pc = "system_prompt") =>
                  /\ cache[k].hit
                  /\ d.conversation_id = cache[k].conversation_id
                  /\ d.messages = cache[k].messages
                  /\ cache' = cache /\ lists' = lists /\ convs' = convs /\ rows' = rows
            /\ (c.pc = "idle" /\ d.pc = "ensure_query") => ~cache[k].hit
            /\ (c.pc = "ensure_query" /\ d.pc = "system_prompt") =>
                  /\ d.conversation_id \in ConversationsOf(k)
                  /\ \A o \in ConversationsOf(k) :
                        convs[o].updated_at <= convs[d.conversation_id].updated_at
                  /\ cache'[k] = Entry(d.conversation_id, d.messages)
                  /\ lists'[d.messages] = load_conversation_messages(rows[d.conversation_id])
                  /\ convs' = convs /\ rows' = rows
            /\ (c.pc = "ensure_query" /\ d.pc = "ensure_create") => ConversationsOf(k) = {}
            /\ (c.pc = "ensure_create" /\ d.pc = "system_prompt") =>
                  /\ d.conversation_id = Len(convs) + 1
                  /\ Len(convs') = Len(convs) + 1
                  /\ convs'[d.conversation_id].key = k
                  /\ convs'[d.conversation_id].message_count = 0
                  /\ rows'[d.conversation_id] = <<>>
                  /\ cache'[k] = Entry(d.conversation_id, d.messages)
                  /\ lists'[d.messages] = <<>>]_vars

\* A request that missed the cache has resumed the later of two conversations.
C21_Witness ==
    \E r \in Reqs :
        /\ chat[r].pc = "system_prompt"
        /\ ~chat[r].hit
        /\ \E o \in ConversationsOf(chat[r].key) :
              convs[o].updated_at < convs[chat[r].conversation_id].updated_at

\* C22: load_conversation returns true, and then caches the conversation
\* with its rebuilt messages under the caller's key alone, exactly when the
\* conversation exists and belongs to the caller's user and project;
\* otherwise it returns false and the cache is unchanged.  No cache entry
\* refers to a conversation of another user or project.
C22_LoadOwnConversation ==
    /\ [][(svc'.fn = "load_conversation" /\ calls' = calls + 1) =>
            LET cid == svc'.conversation_id
                k == svc'.key
            IN IF cid \in 1..Len(convs) /\ convs[cid].key = k
               THEN /\ svc'.result
                    /\ cache'[k].hit
                    /\ cache'[k].conversation_id = cid
                    /\ lists'[cache'[k].messages] = load_conversation_messages(rows[cid])
                    /\ \A j \in AllKeys \ {k} : cache'[j] = cache[j]
               ELSE ~svc'.result /\ cache' = cache]_vars
    /\ [](\A k \in AllKeys : cache[k].hit => convs[cache[k].conversation_id].key = k)

\* load_conversation was asked for a conversation of another user and refused.
C22_Witness ==
    /\ svc.fn = "load_conversation"
    /\ ~svc.result
    /\ svc.conversation_id \in 1..Len(convs)
    /\ convs[svc.conversation_id].key # svc.key

\* C23 (as claimed): no reader of the provider table sees an entry whose
\* connect has not finished: get_available_servers reports no provider as
\* connecting.
C23_NoHalfConstructed ==
    \A s \in get_available_servers : s.status # "connecting"

\* The shutdown in slot o has returned
ShutdownDone(o) == mgr[o].kind = "shutdown" /\ mgr[o].pc = "idle" /\ mgr[o].raised = ""

\* C29 (as claimed): a connection whose status is connected is the one the
\* table holds under its name; and when a shutdown has returned, no call
\* having arrived after it, no connection is connected.
C29_NoOrphan ==
    /\ \A i \in 1..Len(conns) :
          conns[i].status = "connected" => Lookup(connections, conns[i].name) = i
    /\ \A o \in Ops :
          (ShutdownDone(o) /\ calls = mgr[o].seq) =>
              \A i \in 1..Len(conns) : conns[i].status # "connected"

\* The calls in slots o and p overlapped: p arrived while o was running, and
\* no call has arrived since
Overlapped(o, p) ==
    /\ mgr[p].seq = mgr[o].seq + 1
    /\ ~mgr[p].alone
    /\ calls = mgr[p].seq

\* C30 (as claimed): a disconnect_server or shutdown call returns without
\* raising; and when two of them that overlapped have both returned, the
\* providers they named are neither in the table nor enabled.
C30_OverlappingDisconnects ==
    /\ \A o \in Ops :
          (mgr[o].kind \in {"disconnect", "shutdown"} /\ mgr[o].pc = "idle") =>
              mgr[o].raised = ""
    /\ \A o, p \in Ops :
          (mgr[o].kind = "disconnect" /\ mgr[p].kind \in {"disconnect", "shutdown"}
              /\ mgr[o].pc = "idle" /\ mgr[p].pc = "idle" /\ Overlapped(o, p)) =>
              /\ ~HasConn(connections, mgr[o].name)
              /\ mgr[o].name \notin enabled

\* The response of a streaming call of request r is final in this step
Finalized(r) ==
    /\ chat[r].pc = "streaming"
    /\ chat'[r] # chat[r]
    /\ chat'[r].outcome \in {"", "done"}

\* The last tool of a turn of request r has returned in this step
TurnResolved(r) ==
    /\ chat[r].pc = "tools"
    /\ chat'[r].pc # "tools"
    /\ chat'[r].outcome \in {"", "done"}

\* The history of request r ends with the results of the tool calls of resp
EndsWithResults(msgs, resp) ==
    /\ msgs # <<>>
    /\ IsResultEntry(msgs[Len(msgs)])
    /\ \A i \in 1..Len(msgs[Len(msgs)].content.blocks) :
          msgs[Len(msgs)].content.blocks[i].type = "tool_result"
    /\ BlockIds(msgs[Len(msgs)].content.blocks) = ToolUseIds(resp.content)

\* C25: a final response with stop reason tool_use sends the request to its
\* tools, one with any other stop reason ends it with done and opens no
\* stream; when the tools of a turn have returned, another stream is opened
\* if and only if the turn ceiling is not reached, otherwise the request ends
\* with done; and a stream that is not the first of its request is opened
\* only then, on a history that ends with one result per tool call of the
\* turn, error results included.
C25_LoopContinuation ==
    [][\A r \in Reqs :
         LET c == chat[r]
             d == chat'[r]
         IN /\ Finalized(r) =>
                  /\ d.streams = c.streams
                  /\ d.response.stop_reason = "tool_use" => d.pc = "tools"
                  /\ d.response.stop_reason # "tool_use" =>
                        /\ d.pc = "finished" /\ d.outcome = "done"
                        /\ d.events[Len(d.events)] = DoneEv
            /\ TurnResolved(r) =>
                  /\ c.turn < claude_max_turns =>
                        /\ d.pc = "streaming" /\ d.streams = c.streams + 1
                  /\ ~(c.turn < claude_max_turns) =>
                        /\ d.pc = "finished" /\ d.outcome = "done"
                        /\ d.streams = c.streams
                        /\ d.events[Len(d.events)] = DoneEv
            /\ (c.streams >= 1 /\ d.streams # c.streams) =>
                  /\ TurnResolved(r)
                  /\ c.response.stop_reason = "tool_use"
                  /\ c.turn < claude_max_turns
                  /\ d.streams = c.streams + 1
                  /\ EndsWithResults(lists'[d.messages], c.response)
       ]_vars

\* A second stream is open on a history whose last entry holds a result that
\* is an error string and one that is not.
C25_Witness ==
    \E r \in Reqs :
        LET msgs == lists[chat[r].messages]
        IN /\ chat[r].pc = "streaming"
           /\ chat[r].streams = 2
           /\ EndsWithResults(msgs, chat[r].response)
           /\ \E i \in 1..Len(msgs[Len(msgs)].content.blocks) :
                 msgs[Len(msgs)].content.blocks[i].content.kind = "error"
           /\ \E i \in 1..Len(msgs[Len(msgs)].content.blocks) :
                 msgs[Len(msgs)].content.blocks[i].content.kind = "text"

\* The entry at position i of a history is followed by the results of its
\* tool calls
ResultsFollow(msgs, i) ==
    /\ i < Len(msgs)
    /\ IsResultEntry(msgs[i + 1])
    /\ \A j \in 1..Len(msgs[i + 1].content.blocks) :
          msgs[i + 1].content.blocks[j].type = "tool_result"
    /\ BlockIds(msgs[i + 1].content.blocks) = ToolUseIds(msgs[i].content.blocks)

\* User and assistant entries alternate from a user entry on, and the tool
\* calls of an assistant entry are answered by the entry after it
WellFormed(msgs) ==
    \A i \in 1..Len(msgs) :
        /\ msgs[i].role = IF i % 2 = 1 THEN "user" ELSE "assistant"
        /\ (msgs[i].role = "assistant" /\ ToolUseIds(msgs[i].content.blocks) # <<>>) =>
              ResultsFollow(msgs, i)

\* C27 (as claimed): while a streaming call of a request is open that runs
\* alone, after requests that have all ended in the generator, the history it
\* was opened on is well-formed.
C27_WellFormedHistory ==
    \A r \in Reqs :
        (/\ chat[r].pc = "streaming"
         /\ chat[r].quiet
         /\ chat[r].no = started
         /\ \A q \in Reqs \ {r} : chat[q].pc \in {"idle", "finished"}) =>
            WellFormed(lists[chat[r].messages])

\* C28 (as claimed): of two requests of a pair that both missed the cache,
\* the second while nothing had been cleared, both have the same conversation,
\* the pair has one conversation row, and the cache entry of the pair refers
\* to it.
C28_OneConversation ==
    \A r, q \in Reqs :
        (/\ chat[r].no = 1 /\ chat[q].no = 2
         /\ chat[r].key = chat[q].key
         /\ ~chat[r].hit /\ ~chat[q].hit /\ chat[q].cleared_from = 0
         /\ chat[r].conversation_id # 0 /\ chat[q].conversation_id # 0) =>
            /\ Cardinality(ConversationsOf(chat[q].key)) <= 1
            /\ chat[r].conversation_id = chat[q].conversation_id
            /\ cache[chat[q].key].hit =>
                  cache[chat[q].key].conversation_id = chat[q].conversation_id

\* C24 (as claimed): a chat request that has started reaches a terminal
\* event, whatever the provider does with its tool calls.
C24_RequestTerminates ==
    \A r \in Reqs :
        (chat[r].pc \notin {"idle"}) ~> (chat[r].pc \in {"finished", "raised", "cancelled"})

\* The entries of a sequence are pairwise different
NoDuplicates(names) ==
    \A i, j \in 1..Len(names) : names[i] = names[j] => i = j

\* The name of tool j of connection c leads to c and to that tool
RoutesBack(c, j) ==
    LET parts == split(c.anthropic_tools[j], 2)
    IN /\ is_mcp_tool(c.anthropic_tools[j])
       /\ Len(parts) = 3
       /\ parts[2] = c.name
       /\ parts[3] = c.tools[j]

\* C26 (as claimed): the name of every tool of a connected provider leads
\* call_tool back to that provider and that tool; the merged list holds no
\* name twice; and a call of a name the merged list offers is dispatched to
\* a connected provider.
C26_NameIdentifiesProvider ==
    /\ [](\A i \in 1..Len(connections) :
            LET c == conns[connections[i].conn]
            IN c.status = "connected" => \A j \in 1..Len(c.tools) : RoutesBack(c, j))
    /\ [](NoDuplicates(get_all_anthropic_tools))
    /\ [][(ret' # ret /\ ret'.fn = "call_tool" /\ ret'.name \in OfferedNames) =>
              ret'.target = "connected"]_vars

====
